---- MODULE Spec2Model ----
(***************************************************************************)
(* The browser client of the transcription service: the APIService         *)
(* singleton (version gate, shared request path, job polling) with the     *)
(* components that call it, and the server as the client observes it.      *)
(*                                                                         *)
(* One step of the model is one JavaScript task: a timer callback, a user  *)
(* action or the arrival of a response, run together with the microtasks   *)
(* it queues, up to the next network wait.                                 *)
(***************************************************************************)
EXTENDS Integers, Sequences, FiniteSets, TLC

\* ---------------------------------------------------------------- bounds
OneJob == 1         \* jobs the server creates (specifications Spec, SpecDelay)
MaxJobs == 2        \* jobs the server creates (SpecPoll, SpecCache)
MaxAudio == 2       \* distinct recordings submitted (specification SpecCache)
MaxUsers == 1       \* owner ids the server issues
OneAudio == 1       \* distinct recordings submitted (Spec, SpecPoll, SpecDelay,
                    \* SpecOverlap)
OneTick == 1        \* poll ticks with unsettled fetches at one time (Spec,
                    \* SpecPoll, SpecDelay)
MaxTicks == 2       \* poll ticks with unsettled fetches at one time
                    \* (specification SpecOverlap)
MaxChecks == 1      \* version checks in flight at one time
MaxFlight == 2      \* fetches in flight at one time, beyond those of the page load
MaxHandlers == 1    \* registered job-update handlers
MaxHeld == 1        \* responses delayed on their way at one time
StackDepth == 2     \* makeRequest("/user") frames left suspended when the
                    \* initializeUserId recursion exhausts the call stack

\* ------------------------------------------------------------- constants
None == "none"              \* undefined / null / absent header
EmptyHeader == ""           \* a header present with an empty value
CurrentVersion == "1.0.0"
NewerVersion == "1.1.0"
Versions == {CurrentVersion, NewerVersion}
NoUser == 0
NoJob == 0
NoBody == 0

VARIABLES
    isStale,            \* APIService.isStale
    userId,             \* APIService.userId (NoUser = null)
    activeJobs,         \* APIService.activeJobs: job id -> ActiveJob
    jobUpdateHandlers,  \* APIService.jobUpdateHandlers (their number)
    localStorage,       \* localStorage 'userId' (NoUser = absent)
    net,                \* fetches in flight, with the call awaiting each
    ticks,              \* per unsettled poll tick: job id -> settled result
    serverVersion,      \* the version the server advertises and echoes
    srvJobs,            \* the server's jobs, by id 1..Len
    srvUsers,           \* number of owner ids the server has issued
    cache,              \* the server's ContentCache
    app,                \* App.initialize: "version", "user", "ready", "failed"
    jobs,               \* JobsList: the jobs state of the mounted component
    out                 \* what the last step returned, dispatched, notified

vars == <<isStale, userId, activeJobs, jobUpdateHandlers, localStorage, net,
          ticks, serverVersion, srvJobs, srvUsers, cache, app, jobs, out>>

\* ------------------------------------------------------------------ data
\* TranscriptionStatusResponse / ActiveJob fields (createdAt is written and
\* never read to any effect, and is left out).
JobView(s, p, t, c, e) ==
    [status |-> s, progress |-> p, transcription |-> t, category |-> c, error |-> e]
NoView == JobView(None, 0, None, None, None)

\* A parsed JSON body; every body has all fields so that bodies compare.
\* tag "none" is no body; id is job_id or user_id.
Body(tag, id, version, view, list) ==
    [tag |-> tag, id |-> id, version |-> version, view |-> view, list |-> list]
NoData == Body("none", 0, None, NoView, <<>>)
ErrorBody == Body("detail", 0, None, NoView, <<>>)
VersionBody(v) == Body("version", 0, v, NoView, <<>>)
UserBody(u) == Body("user", u, None, NoView, <<>>)
JobBody(j, s) == Body("job", j, None, JobView(s, 0, None, None, None), <<>>)
StatusBody(j, view) == Body("status", j, None, view, <<>>)
JobsBody(list) == Body("jobs", 0, None, NoView, list)
OtherBody == Body("other", 0, None, NoView, <<>>)

\* A response as fetch delivers it.
Response(kind, hdr, data) == [kind |-> kind, hdr |-> hdr, data |-> data]
Pending == Response("pending", None, NoData)

\* APIResponse<T> (its version field, the echoed header, is read by no caller
\* and is left out)
APIResponse(data, error, stale) == [data |-> data, error |-> error, stale |-> stale]
NoResult == APIResponse(NoData, None, FALSE)
StaleResult == APIResponse(NoData, "Application version mismatch. Please refresh the page.", TRUE)
Unsettled == APIResponse(NoData, "unsettled", FALSE)
HasData(r) == r.data.tag # "none"

\* detail of the versionMismatch event
MismatchEvent(backend) == [backendVersion |-> backend, frontendVersion |-> CurrentVersion]

\* ContentCache. entries: the fingerprints with a stored result (the result
\* is the one of analyze); hits, misses: the counters; inflight: the
\* fingerprints being computed. The fingerprint of a recording is the
\* recording, identical bytes giving identical fingerprints.
EmptyCache == [entries |-> {}, hits |-> 0, misses |-> 0, inflight |-> {}]

\* What a step did. op: the operation; stale: isStale as the step began;
\* resp, result: the response that arrived and what makeRequest returned for
\* it; calls: the makeRequest calls that came to the gate, each with what it
\* returned at once (Unsettled: it sent its fetch); sent: the fetches sent;
\* ret: what the operation returned to its caller; events: the
\* versionMismatch events dispatched; settled, updated: the results of the
\* poll tick that ended and the jobs it set; notified: the mapping each
\* handler call was given.
Out(op, stale, resp, result, cs) ==
    [op |-> op, stale |-> stale, resp |-> resp, result |-> result,
     calls |-> cs.calls, sent |-> cs.sent, ret |-> cs.ret, events |-> cs.events,
     settled |-> cs.settled, updated |-> cs.updated, notified |-> cs.notified]
Nothing ==
    [calls |-> <<>>, sent |-> {}, ret |-> NoResult, events |-> <<>>,
     settled |-> <<>>, updated |-> {}, notified |-> <<>>]
Quiet(op) == Out(op, isStale, Pending, NoResult, Nothing)
PageLoad(op, sent) == Out(op, isStale, Pending, NoResult, [Nothing EXCEPT !.sent = sent])
Call(op, job, result) == [op |-> op, job |-> job, result |-> result]

\* A fetch in flight. op: the operation awaiting it; slot, job: which call of
\* that operation; body: the audio of a submission; left:
\* makeRequest("/user") frames still suspended below this call (the fetch is
\* GET /user while left > 0); ver, uid: the X-API-Version and X-User-ID
\* request headers; resp: the reply, once made; seen: whether isStale was
\* true as a reply that is delayed on its way was made.
Fetch(op, slot, job, body, left, ver, uid) ==
    [op |-> op, slot |-> slot, job |-> job, body |-> body, left |-> left,
     ver |-> ver, uid |-> uid, resp |-> Pending, seen |-> FALSE]

Endpoint(m) ==
    IF m.left > 0 THEN "/user"
    ELSE CASE m.op = "transcribe" -> "/transcribe"
           [] m.op = "status" -> "/jobs/{job_id}"
           [] m.op = "jobs" -> "/jobs"
           [] m.op = "user" -> "/user"
           [] m.op \in {"version", "backend"} -> "/version"
           [] m.op = "stats" -> "/stats"
           [] m.op = "clear" -> "/clear-cache"
           [] OTHER -> "/user"

Method(m) == IF Endpoint(m) \in {"/transcribe", "/clear-cache"} THEN "POST" ELSE "GET"

Awaiting == {m \in net : m.resp = Pending}
Replied == {m \in net : m.resp # Pending}

\* ------------------------------------------------- the client state
\* The part of the state one client task reads and writes, threaded through
\* the operators below: the APIService fields, localStorage, what the task
\* sent, and what it returned and notified.
Client ==
    [isStale |-> isStale, userId |-> userId, activeJobs |-> activeJobs,
     localStorage |-> localStorage, ticks |-> ticks, app |-> app, jobs |-> jobs,
     calls |-> <<>>, sent |-> {}, ret |-> NoResult, events |-> <<>>,
     settled |-> <<>>, updated |-> {}, notified |-> <<>>]

\* notifyJobUpdateHandlers: every handler is called with the mapping itself.
NotifyJobUpdateHandlers(aj) == [h \in 1..jobUpdateHandlers |-> aj]

\* ---------------------------------------------------------- makeRequest
Truthy(h) == h # None /\ h # EmptyHeader

\* A gate that lets every call through.
GateRejectsNever(stale) == FALSE

\* line 171: if (this.isStale) return the stale-version result
GateRejects(stale) == stale

\* line 206: backendVersion && backendVersion !== this.currentVersion
VersionMismatch(hdr) == Truthy(hdr) /\ hdr # CurrentVersion

\* A makeRequest that looks at the status before the header.
HandleResponseStatusFirst(resp) ==
    IF resp.kind = "neterr" THEN APIResponse(NoData, "Request failed", FALSE)
    ELSE IF resp.kind = "httperr" THEN APIResponse(NoData, "detail", FALSE)
    ELSE IF VersionMismatch(resp.hdr) THEN StaleResult
    ELSE APIResponse(resp.data, None, FALSE)

\* lines 199-236: what makeRequest returns for a response (a rejected fetch
\* is caught at line 234; the header is checked before the status).
HandleResponse(resp) ==
    IF resp.kind = "neterr" THEN APIResponse(NoData, "Request failed", FALSE)
    ELSE IF VersionMismatch(resp.hdr) THEN StaleResult
    ELSE IF resp.kind = "httperr" THEN APIResponse(NoData, "detail", FALSE)
    ELSE APIResponse(resp.data, None, FALSE)

\* A makeRequest that also clears the flag on a matching response.
NoteResponseResets(cs, resp) ==
    IF resp.kind # "neterr" /\ VersionMismatch(resp.hdr)
    THEN [cs EXCEPT !.isStale = TRUE, !.events = Append(@, MismatchEvent(resp.hdr))]
    ELSE IF resp.kind # "neterr" /\ Truthy(resp.hdr) THEN [cs EXCEPT !.isStale = FALSE]
    ELSE cs

\* lines 207-213: the flag and the event of a mismatching response
NoteResponse(cs, resp) ==
    IF resp.kind # "neterr" /\ VersionMismatch(resp.hdr)
    THEN [cs EXCEPT !.isStale = TRUE, !.events = Append(@, MismatchEvent(resp.hdr))]
    ELSE cs

\* initializeUserId, lines 53-57: an id in localStorage is taken over.
TakeStoredId(cs) ==
    IF cs.userId = NoUser THEN [cs EXCEPT !.userId = cs.localStorage] ELSE cs

\* lines 165-202, up to the fetch. With no id in the service and none
\* stored, initializeUserId calls getUser, which calls makeRequest, which
\* calls initializeUserId again, and so on until the call stack is
\* exhausted; the error is caught in the innermost getUser, and the
\* suspended makeRequest("/user") frames resume one after the other, each
\* at the gate. The result is [cs, result]: result is Unsettled when a fetch
\* was sent, and the stale-version result when the gate rejected the call.
MakeRequest(cs, op, slot, job, body) ==
    LET c1 == TakeStoredId(cs)
        depth == IF c1.userId = NoUser THEN StackDepth ELSE 0
    IN  IF GateRejects(c1.isStale)
        THEN [cs |-> [c1 EXCEPT !.calls = Append(@, Call(op, job, StaleResult))],
              result |-> StaleResult]
        ELSE [cs |-> [c1 EXCEPT !.calls = Append(@, Call(op, job, Unsettled)),
                                !.sent = @ \cup
                        {Fetch(op, slot, job, body, depth, CurrentVersion, c1.userId)}],
              result |-> Unsettled]

\* ------------------------------------------------------ pollActiveJobs
\* lines 123-129. The category is an object: !== compares references, and
\* the fetched one was just parsed from the response, so it is never the
\* locally held one; only undefined equals undefined.
CategoryDiffers(held, fetched) == ~(held = None /\ fetched = None)

Differs(cur, st) ==
    \/ cur.status # st.status
    \/ cur.progress # st.progress
    \/ cur.transcription # st.transcription
    \/ CategoryDiffers(cur.category, st.category)
    \/ cur.error # st.error

\* lines 116-121: a fulfilled result with data, for a job still held
Usable(aj, r) == HasData(r) /\ r.data.id \in DOMAIN aj

\* An update that takes over the status and the progress alone.
ApplyStatusOnly(aj, r) ==
    [aj EXCEPT ![r.data.id].status = r.data.view.status,
               ![r.data.id].progress = r.data.view.progress]

\* lines 130-137
ApplyStatus(aj, r) ==
    [aj EXCEPT ![r.data.id] = JobView(r.data.view.status, r.data.view.progress,
                                      r.data.view.transcription,
                                      r.data.view.category, r.data.view.error)]

Least(S) == CHOOSE x \in S : \A y \in S : x <= y

\* lines 112-148: the results in order; acc = [activeJobs, updated]
RECURSIVE ForEachResult(_, _, _)
ForEachResult(acc, results, js) ==
    IF js = {} THEN acc
    ELSE LET j == Least(js)
             r == results[j]
             hit == Usable(acc.activeJobs, r) /\ Differs(acc.activeJobs[r.data.id], r.data.view)
         IN  ForEachResult(
                 IF hit THEN [activeJobs |-> ApplyStatus(acc.activeJobs, r),
                              updated |-> acc.updated \cup {r.data.id}]
                 ELSE acc,
                 results, js \ {j})

\* A fail-fast tick (Promise.all): one failed result and nothing is applied.
PollResultsFailFast(aj, results) ==
    LET acc == ForEachResult([activeJobs |-> aj, updated |-> {}], results, DOMAIN results)
    IN  IF \E k \in DOMAIN results : ~HasData(results[k])
        THEN [activeJobs |-> aj, updated |-> {}, notified |-> <<>>]
        ELSE [activeJobs |-> acc.activeJobs,
              updated |-> acc.updated,
              notified |-> IF acc.updated # {} THEN NotifyJobUpdateHandlers(acc.activeJobs)
                           ELSE <<>>]

\* A tick that notifies the handlers once for every job it updated.
RECURSIVE NotifyTimes(_, _)
NotifyTimes(n, aj) ==
    IF n = 0 THEN <<>> ELSE NotifyJobUpdateHandlers(aj) \o NotifyTimes(n - 1, aj)

PollResultsNotifyEach(aj, results) ==
    LET acc == ForEachResult([activeJobs |-> aj, updated |-> {}], results, DOMAIN results)
    IN  [activeJobs |-> acc.activeJobs,
         updated |-> acc.updated,
         notified |-> NotifyTimes(Cardinality(acc.updated), acc.activeJobs)]

\* A tick that removes the jobs it finds completed or failed (the removal
\* that lines 141-145 leave out).
PollResultsEvicts(aj, results) ==
    LET acc == ForEachResult([activeJobs |-> aj, updated |-> {}], results, DOMAIN results)
        kept == {j \in DOMAIN acc.activeJobs :
                    acc.activeJobs[j].status \notin {"completed", "error"}}
    IN  [activeJobs |-> [j \in kept |-> acc.activeJobs[j]],
         updated |-> acc.updated,
         notified |-> IF acc.updated # {} THEN NotifyJobUpdateHandlers(acc.activeJobs)
                      ELSE <<>>]

\* lines 110-153, once every promise of the tick has settled:
\* [activeJobs, updated, notified]
PollResults(aj, results) ==
    LET acc == ForEachResult([activeJobs |-> aj, updated |-> {}], results, DOMAIN results)
    IN  [activeJobs |-> acc.activeJobs,
         updated |-> acc.updated,
         notified |-> IF acc.updated # {} THEN NotifyJobUpdateHandlers(acc.activeJobs)
                      ELSE <<>>]

\* A result of tick t for job j has settled; the tick ends with its last.
SettleStatus(cs, t, j, r) ==
    LET results == [cs.ticks[t] EXCEPT ![j] = r]
    IN  IF \E k \in DOMAIN results : results[k] = Unsettled
        THEN [cs EXCEPT !.ticks[t] = results]
        ELSE LET p == PollResults(cs.activeJobs, results)
             IN  [cs EXCEPT !.ticks[t] = <<>>,
                            !.activeJobs = p.activeJobs,
                            !.settled = results,
                            !.updated = p.updated,
                            !.notified = @ \o p.notified]

\* ------------------------------------------------------ transcribeAudio
\* A transcribeAudio that starts the mapping afresh with the new job.
TranscribeResultAlone(cs, r) ==
    IF HasData(r)
    THEN LET aj == [k \in {r.data.id} |-> JobView(r.data.view.status, 0, None, None, None)]
         IN  [cs EXCEPT !.activeJobs = aj,
                        !.notified = @ \o NotifyJobUpdateHandlers(aj),
                        !.ret = APIResponse(r.data, None, FALSE)]
    ELSE [cs EXCEPT !.ret = APIResponse(NoData, r.error, FALSE)]

\* A transcribeAudio that notifies the handlers of a failed submission too.
TranscribeResultNotifiesFailure(cs, r) ==
    IF HasData(r)
    THEN LET aj == [k \in DOMAIN cs.activeJobs \cup {r.data.id} |->
                      IF k = r.data.id
                      THEN JobView(r.data.view.status, 0, None, None, None)
                      ELSE cs.activeJobs[k]]
         IN  [cs EXCEPT !.activeJobs = aj,
                        !.notified = @ \o NotifyJobUpdateHandlers(aj),
                        !.ret = APIResponse(r.data, None, FALSE)]
    ELSE [cs EXCEPT !.notified = @ \o NotifyJobUpdateHandlers(cs.activeJobs),
                    !.ret = APIResponse(NoData, r.error, FALSE)]

\* lines 271-288, after makeRequest returned r
TranscribeResult(cs, r) ==
    IF HasData(r)
    THEN LET aj == [k \in DOMAIN cs.activeJobs \cup {r.data.id} |->
                      IF k = r.data.id
                      THEN JobView(r.data.view.status, 0, None, None, None)
                      ELSE cs.activeJobs[k]]
         IN  [cs EXCEPT !.activeJobs = aj,
                        !.notified = @ \o NotifyJobUpdateHandlers(aj),
                        !.ret = APIResponse(r.data, None, FALSE)]
    ELSE [cs EXCEPT !.ret = APIResponse(NoData, r.error, FALSE)]

\* getUser, lines 251-261, then App.initialize, App.tsx lines 34-45
AppUserResult(cs, r) ==
    LET c1 == [cs EXCEPT !.ret = APIResponse(r.data, r.error, FALSE)]
    IN  IF r.error # None THEN [c1 EXCEPT !.app = "failed"]
        ELSE IF HasData(r) THEN [c1 EXCEPT !.localStorage = r.data.id, !.app = "ready"]
        ELSE [c1 EXCEPT !.app = "ready"]

\* JobsList.fetchJobs, part_000 lines 30-68, after getUserJobs returned r to
\* the component mounted as the slot-th: a list that is not empty replaces
\* the jobs state of the component.
FetchJobsResult(cs, slot, r) ==
    LET c1 == [cs EXCEPT !.ret = r]
    IN  IF r.error = None /\ HasData(r) /\ DOMAIN r.data.list # {}
           /\ slot = jobUpdateHandlers
        THEN [c1 EXCEPT !.jobs = r.data.list]
        ELSE c1

\* The handler JobsList registered, part_000 lines 17-20: the jobs state
\* becomes a copy of the mapping it is called with.
HandlerSetsJobs(cs) ==
    IF cs.notified = <<>> THEN cs
    ELSE [cs EXCEPT !.jobs = cs.notified[Len(cs.notified)]]

\* What the caller of makeRequest does with its result.
Deliver(cs, m, r) ==
    CASE m.op = "transcribe" -> TranscribeResult(cs, r)
      [] m.op = "status" -> SettleStatus(cs, m.slot, m.job, r)
      [] m.op = "user" -> AppUserResult(cs, r)
      [] m.op = "jobs" -> FetchJobsResult(cs, m.slot, r)
      [] OTHER -> cs

\* getUser and initializeUserId of a suspended frame, lines 61-67 and
\* 253-257: the id of the response is kept in the service and stored.
KeepUserId(cs, r) ==
    IF HasData(r) THEN [cs EXCEPT !.userId = r.data.id, !.localStorage = r.data.id]
    ELSE cs

\* A response to a fetch of makeRequest arrives.
OnResponse(cs, m) ==
    LET r == HandleResponse(m.resp)
        c1 == NoteResponse(cs, m.resp)
    IN  IF m.left = 0 THEN Deliver(c1, m, r)
        ELSE LET c2 == KeepUserId(c1, r)
             IN  IF m.left = 1 /\ m.op = "ctor" THEN c2
                 ELSE IF GateRejects(c2.isStale)
                 THEN Deliver([c2 EXCEPT !.calls = Append(@, Call(m.op, m.job, StaleResult))],
                              m, StaleResult)
                 ELSE [c2 EXCEPT !.calls = Append(@, Call(m.op, m.job, Unsettled)),
                                 !.sent = @ \cup
                         {Fetch(m.op, m.slot, m.job, m.body, m.left - 1, CurrentVersion,
                                c2.userId)}]

\* lines 98-110: one getJobStatus per key; acc = [cs, results]
RECURSIVE CallEach(_, _, _)
CallEach(acc, t, js) ==
    IF js = {} THEN acc
    ELSE LET j == Least(js)
             q == MakeRequest(acc.cs, "status", t, j, NoBody)
         IN  CallEach([cs |-> q.cs, results |-> acc.results @@ (j :> q.result)],
                      t, js \ {j})

\* A tick that asks the server for the jobs when it holds none.
PollEmptyTickFetches(cs) == MakeRequest(cs, "jobs", 0, NoJob, NoBody).cs

\* lines 99-101: nothing to poll
PollEmptyTick(cs) == cs

\* pollActiveJobs, to its await; results the gate gave at once settle at once
StartTick(cs, t) ==
    IF DOMAIN cs.activeJobs = {} THEN PollEmptyTick(cs)
    ELSE LET q == CallEach([cs |-> cs, results |-> <<>>], t, DOMAIN cs.activeJobs)
         IN  IF \E k \in DOMAIN q.results : q.results[k] = Unsettled
             THEN [q.cs EXCEPT !.ticks[t] = q.results]
             ELSE LET p == PollResults(q.cs.activeJobs, q.results)
                  IN  [q.cs EXCEPT !.activeJobs = p.activeJobs,
                                   !.settled = q.results,
                                   !.updated = p.updated,
                                   !.notified = @ \o p.notified]

\* ------------------------------------------- checkVersionCompatibility
\* A fetch made without makeRequest carries no header of the client.
RawFetch(op, slot) == Fetch(op, slot, NoJob, NoBody, 0, None, NoUser)

\* A check that never clears the flag.
CheckResultKeepsStale(cs, resp) ==
    IF resp.kind = "neterr" THEN cs
    ELSE IF resp.data.version # CurrentVersion
         THEN [cs EXCEPT !.isStale = TRUE,
                         !.events = Append(@, MismatchEvent(resp.data.version))]
         ELSE cs

\* A check that takes a failed fetch for a matching version.
CheckResultFailClears(cs, resp) ==
    IF resp.kind = "neterr" THEN [cs EXCEPT !.isStale = FALSE]
    ELSE IF resp.data.version # CurrentVersion
         THEN [cs EXCEPT !.isStale = TRUE,
                         !.events = Append(@, MismatchEvent(resp.data.version))]
         ELSE [cs EXCEPT !.isStale = FALSE]

\* lines 78-94, after the fetch; a fetch that is rejected, or whose body
\* cannot be read (response.json() throws), is caught at line 92
CheckResult(cs, resp) ==
    IF resp.kind = "neterr" THEN cs
    ELSE IF resp.data.version # CurrentVersion
         THEN [cs EXCEPT !.isStale = TRUE,
                         !.events = Append(@, MismatchEvent(resp.data.version))]
         ELSE [cs EXCEPT !.isStale = FALSE]

\* App.initialize, App.tsx lines 23-50, after getBackendVersion
AppVersionResult(cs, resp) ==
    IF resp.kind = "neterr" THEN [cs EXCEPT !.app = "failed"]
    ELSE IF cs.localStorage # NoUser THEN [cs EXCEPT !.app = "ready"]
    ELSE LET q == MakeRequest(cs, "user", 0, NoJob, NoBody)
         IN  IF q.result = Unsettled THEN [q.cs EXCEPT !.app = "user"]
             ELSE AppUserResult(q.cs, q.result)

\* StatsDisplay.clearCache, lines 128-142, after the fetch
ClearResult(cs, resp) ==
    IF resp.kind = "ok" THEN [cs EXCEPT !.sent = @ \cup {RawFetch("stats", 0)}] ELSE cs

\* A response to a fetch made without makeRequest arrives.
OnRawResponse(cs, m) ==
    CASE m.op = "version" -> CheckResult(cs, m.resp)
      [] m.op = "backend" -> AppVersionResult(cs, m.resp)
      [] m.op = "clear" -> ClearResult(cs, m.resp)
      [] OTHER -> cs

Raw(m) == m.op \in {"version", "backend", "stats", "clear"}

\* --------------------------------------------------------------- actions
\* The client task leaves the state cs (the value of task, computed once),
\* having consumed the responses gone.
Commit(task, gone, op, resp, result) ==
    \E cs \in {task} :
        /\ isStale' = cs.isStale
        /\ userId' = cs.userId
        /\ activeJobs' = cs.activeJobs
        /\ localStorage' = cs.localStorage
        /\ ticks' = cs.ticks
        /\ app' = cs.app
        /\ jobs' = HandlerSetsJobs(cs).jobs
        /\ net' = (net \ gone) \cup cs.sent
        /\ Cardinality(net') <= MaxFlight \/ Cardinality(net') <= Cardinality(net)
        /\ out' = Out(op, isStale, resp, result, cs)

\* The constructor, lines 21-33, and the first render of App: the fetches
\* in flight once the page has loaded with `stored` in localStorage.
FirstFetches(stored) ==
    {RawFetch("version", 1), RawFetch("backend", 0)} \cup
    (IF stored = NoUser
     THEN {Fetch("ctor", 0, NoJob, NoBody, StackDepth, CurrentVersion, NoUser)}
     ELSE {})

NoTicks == [t \in 1..MaxTicks |-> <<>>]

Init ==
    /\ isStale = FALSE
    /\ localStorage \in {NoUser, 1}
    /\ userId = localStorage
    /\ srvUsers = localStorage
    /\ activeJobs = <<>>
    /\ jobUpdateHandlers = 0
    /\ ticks = NoTicks
    /\ app = "version"
    /\ jobs = <<>>
    /\ net = FirstFetches(localStorage)
    /\ serverVersion \in Versions
    /\ srvJobs = <<>>
    /\ cache = EmptyCache
    /\ out = PageLoad("constructor", net)

\* setInterval(() => this.pollActiveJobs(), 2000)
PollActiveJobs(maxTicks) ==
    \E t \in 1..maxTicks :
        /\ ticks[t] = <<>>
        /\ \A u \in 1..(t - 1) : ticks[u] # <<>>
        /\ Commit(StartTick(Client, t), {}, "pollActiveJobs", Pending, NoResult)
        /\ UNCHANGED <<jobUpdateHandlers, serverVersion, srvJobs, srvUsers, cache>>

\* A check that goes through the gate: in a stale session it sends nothing.
CheckVersionCompatibilityGated ==
    \E k \in 1..MaxChecks :
        /\ \A m \in net : ~(m.op = "version" /\ m.slot = k)
        /\ \A u \in 1..(k - 1) : \E m \in net : m.op = "version" /\ m.slot = u
        /\ Commit([Client EXCEPT !.sent = IF GateRejects(isStale) THEN {}
                                          ELSE {RawFetch("version", k)}], {},
                  "checkVersionCompatibility", Pending, NoResult)
        /\ UNCHANGED <<jobUpdateHandlers, serverVersion, srvJobs, srvUsers, cache>>

\* setInterval(() => this.checkVersionCompatibility(), 5 * 60 * 1000)
CheckVersionCompatibility ==
    \E k \in 1..MaxChecks :
        /\ \A m \in net : ~(m.op = "version" /\ m.slot = k)
        /\ \A u \in 1..(k - 1) : \E m \in net : m.op = "version" /\ m.slot = u
        /\ Commit([Client EXCEPT !.sent = {RawFetch("version", k)}], {},
                  "checkVersionCompatibility", Pending, NoResult)
        /\ UNCHANGED <<jobUpdateHandlers, serverVersion, srvJobs, srvUsers, cache>>

\* AudioRecorder: recorder.onstop calls APIService.transcribeAudio; the
\* button is disabled until the call has returned (jobStarting).
TranscribeAudio(maxAudio) ==
    /\ app = "ready"
    /\ \A m \in net : m.op # "transcribe"
    /\ \E audioBlob \in 1..maxAudio :
          LET q == MakeRequest(Client, "transcribe", 0, NoJob, audioBlob)
              cs == IF q.result = Unsettled THEN q.cs ELSE TranscribeResult(q.cs, q.result)
          IN  Commit(cs, {}, "transcribeAudio", Pending, q.result)
    /\ UNCHANGED <<jobUpdateHandlers, serverVersion, srvJobs, srvUsers, cache>>

\* JobsList mounts: registerJobUpdateHandler, then getUserJobs
MountJobsList ==
    /\ app = "ready"
    /\ jobUpdateHandlers < MaxHandlers
    /\ jobUpdateHandlers' = jobUpdateHandlers + 1
    /\ LET q == MakeRequest([Client EXCEPT !.jobs = activeJobs], "jobs",
                            jobUpdateHandlers + 1, NoJob, NoBody)
           cs == IF q.result = Unsettled THEN q.cs ELSE [q.cs EXCEPT !.ret = q.result]
       IN  Commit(cs, {}, "getUserJobs", Pending, q.result)
    /\ UNCHANGED <<serverVersion, srvJobs, srvUsers, cache>>

\* StatsDisplay.fetchStats, on mount, every 5 seconds and on Refresh
FetchStats ==
    /\ app = "ready"
    /\ RawFetch("stats", 0) \notin net
    /\ Commit([Client EXCEPT !.sent = {RawFetch("stats", 0)}], {},
              "fetchStats", Pending, NoResult)
    /\ UNCHANGED <<jobUpdateHandlers, serverVersion, srvJobs, srvUsers, cache>>

\* StatsDisplay.clearCache, the Clear Cache button
ClearCache ==
    /\ app = "ready"
    /\ RawFetch("clear", 0) \notin net
    /\ Commit([Client EXCEPT !.sent = {RawFetch("clear", 0)}], {},
              "clearCache", Pending, NoResult)
    /\ UNCHANGED <<jobUpdateHandlers, serverVersion, srvJobs, srvUsers, cache>>

\* VersionAlert.handleRefresh and the Retry button: window.location.reload()
Reload ==
    /\ isStale' = FALSE
    /\ userId' = localStorage
    /\ activeJobs' = <<>>
    /\ jobUpdateHandlers' = 0
    /\ ticks' = NoTicks
    /\ app' = "version"
    /\ jobs' = <<>>
    /\ net' = FirstFetches(localStorage)
    /\ out' = PageLoad("reload", net')
    /\ UNCHANGED <<localStorage, serverVersion, srvJobs, srvUsers, cache>>

\* ---------------------------------------------------------------- server
QueuedView == JobView("queued", 0, None, None, None)
ProcessingView == JobView("processing", 50, "hello world", None, None)
CompletedView == JobView("completed", 100, "hello world", "greeting", None)
ErrorView(v) == JobView("error", v.progress, None, None, "analysis failed")

\* analyze(audio): the transcript and the category of a recording
TranscriptOf(a) ==
    IF a = 1 THEN CompletedView.transcription
    ELSE IF a = 2 THEN "good morning" ELSE "other words"
CategoryOf(a) ==
    IF a = 1 THEN CompletedView.category
    ELSE IF a = 2 THEN "salutation" ELSE "other topic"
Processing(a) == [ProcessingView EXCEPT !.transcription = TranscriptOf(a)]
Completed(a) ==
    [CompletedView EXCEPT !.transcription = TranscriptOf(a), !.category = CategoryOf(a)]

\* A lookup that takes a computation in flight for a miss of its own.
GetOrComputeAlone(c, a) ==
    IF a \in c.entries THEN [c EXCEPT !.hits = @ + 1]
    ELSE [c EXCEPT !.misses = @ + 1, !.inflight = @ \cup {a}]

\* getOrCompute: an entry is a hit; a computation in flight is joined and
\* counts as a hit; otherwise a miss, and the computation starts.
GetOrCompute(c, a) ==
    IF a \in c.entries THEN [c EXCEPT !.hits = @ + 1]
    ELSE IF a \in c.inflight THEN [c EXCEPT !.hits = @ + 1]
    ELSE [c EXCEPT !.misses = @ + 1, !.inflight = @ \cup {a}]

\* A computation that lands without storing its result.
StoreResultNever(c, a) == [c EXCEPT !.inflight = @ \ {a}]

\* The computation of a lands: its result is stored.
StoreResult(c, a) == [c EXCEPT !.entries = @ \cup {a}, !.inflight = @ \ {a}]

\* A failed computation that leaves an entry behind.
DropFailedStores(c, a) == [c EXCEPT !.entries = @ \cup {a}, !.inflight = @ \ {a}]

\* The computation of a fails: nothing is stored.
DropFailed(c, a) == [c EXCEPT !.inflight = @ \ {a}]

\* A clear that forgets the entries and keeps the counters.
ClearEntriesOnly(c) == [c EXCEPT !.entries = {}]

\* clear(): entries, hits and misses are reset; computations in flight go on.
Clear(c) == [c EXCEPT !.entries = {}, !.hits = 0, !.misses = 0]

\* stats(): the hit rate in percent
Stats(c) ==
    [entries |-> Cardinality(c.entries), hits |-> c.hits, misses |-> c.misses,
     hit_rate |-> IF c.hits + c.misses = 0 THEN 0
                  ELSE (100 * c.hits) \div (c.hits + c.misses)]

\* submit: the view of the job created for recording a
FirstView(c, a) == IF a \in c.entries THEN Completed(a) ELSE QueuedView

ServerJobs == 1..Len(srvJobs)
EchoHeaders(m) == IF Raw(m) THEN {serverVersion} ELSE {None, EmptyHeader, serverVersion}

Answer(resp, js, us, c) == [resp |-> resp, jobs |-> js, users |-> us, cache |-> c]

\* What the server may answer to request m, with the state it is left in.
OkAnswers(m, h, maxJobs) ==
    CASE Endpoint(m) = "/version" ->
           {Answer(Response("ok", h, VersionBody(serverVersion)), srvJobs, srvUsers, cache)}
      [] Endpoint(m) = "/user" ->
           IF m.uid # NoUser
           THEN {Answer(Response("ok", h, UserBody(m.uid)), srvJobs, srvUsers, cache)}
           ELSE IF srvUsers < MaxUsers
           THEN {Answer(Response("ok", h, UserBody(srvUsers + 1)), srvJobs, srvUsers + 1,
                        cache)}
           ELSE {}
      [] Endpoint(m) = "/transcribe" ->
           IF Len(srvJobs) < maxJobs
           THEN {Answer(Response("ok", h, JobBody(Len(srvJobs) + 1,
                                                  FirstView(cache, m.body).status)),
                        Append(srvJobs, [owner |-> m.uid, audio |-> m.body,
                                         view |-> FirstView(cache, m.body)]),
                        srvUsers, GetOrCompute(cache, m.body))}
           ELSE {}
      [] Endpoint(m) = "/jobs/{job_id}" ->
           IF m.job \in ServerJobs
           THEN {Answer(Response("ok", h, StatusBody(m.job, srvJobs[m.job].view)),
                        srvJobs, srvUsers, cache)}
           ELSE {}
      [] Endpoint(m) = "/jobs" ->
           {Answer(Response("ok", h,
                JobsBody([j \in {k \in ServerJobs : srvJobs[k].owner = m.uid} |-> srvJobs[j].view])),
                srvJobs, srvUsers, cache)}
      [] Endpoint(m) = "/clear-cache" ->
           {Answer(Response("ok", h, OtherBody), srvJobs, srvUsers, Clear(cache))}
      [] OTHER -> {Answer(Response("ok", h, OtherBody), srvJobs, srvUsers, cache)}

\* A request may also fail on the way, or be refused.
Answers(m, maxJobs) ==
    {Answer(Response("neterr", None, NoData), srvJobs, srvUsers, cache)}
    \cup {Answer(Response("httperr", h, ErrorBody), srvJobs, srvUsers, cache) :
             h \in EchoHeaders(m)}
    \cup UNION {OkAnswers(m, h, maxJobs) : h \in EchoHeaders(m)}

\* The client task run when the response to fetch m0 arrives as m.
Arrive(m0, m) ==
    IF Raw(m)
    THEN Commit(OnRawResponse(Client, m), {m0}, m.op, m.resp, NoResult)
    ELSE Commit(OnResponse(Client, m), {m0}, "response", m.resp, HandleResponse(m.resp))

\* The server answers a request and the response arrives.
Respond(maxJobs) ==
    \E m \in Awaiting : \E a \in Answers(m, maxJobs) :
        /\ srvJobs' = a.jobs
        /\ srvUsers' = a.users
        /\ cache' = a.cache
        /\ Arrive(m, [m EXCEPT !.resp = a.resp])
        /\ UNCHANGED <<jobUpdateHandlers, serverVersion>>

\* The server answers a request and the response is delayed on its way.
ServerReply(maxJobs) ==
    \E m \in Awaiting : \E a \in Answers(m, maxJobs) :
        /\ Cardinality(Replied) < MaxHeld
        /\ srvJobs' = a.jobs
        /\ srvUsers' = a.users
        /\ cache' = a.cache
        /\ net' = (net \ {m}) \cup {[m EXCEPT !.resp = a.resp, !.seen = isStale]}
        /\ out' = Quiet("server")
        /\ UNCHANGED <<isStale, userId, activeJobs, jobUpdateHandlers, localStorage,
                       ticks, app, jobs, serverVersion>>

\* A delayed response arrives.
Receive ==
    \E m \in Replied :
        /\ Arrive(m, m)
        /\ UNCHANGED <<jobUpdateHandlers, serverVersion, srvJobs, srvUsers, cache>>

\* The jobs waiting for the result of recording a
Waiting(a) ==
    {j \in ServerJobs : srvJobs[j].audio = a
                        /\ srvJobs[j].view.status \in {"queued", "processing"}}

\* The processing tasks move the jobs forward: a queued job gets its
\* transcript; the computation of a recording lands and every job waiting
\* for it is completed with its result; or it fails and they fail.
ServerAdvance ==
    /\ \/ \E j \in ServerJobs :
             /\ srvJobs[j].view = QueuedView
             /\ srvJobs' = [srvJobs EXCEPT ![j].view = Processing(srvJobs[j].audio)]
             /\ cache' = cache
       \/ \E a \in cache.inflight :
             /\ \E j \in Waiting(a) : srvJobs[j].view.status = "processing"
             /\ srvJobs' = [j \in ServerJobs |->
                              IF j \in Waiting(a)
                              THEN [srvJobs[j] EXCEPT !.view = Completed(a)]
                              ELSE srvJobs[j]]
             /\ cache' = StoreResult(cache, a)
       \/ \E a \in cache.inflight :
             /\ srvJobs' = [j \in ServerJobs |->
                              IF j \in Waiting(a)
                              THEN [srvJobs[j] EXCEPT !.view = ErrorView(@)]
                              ELSE srvJobs[j]]
             /\ cache' = DropFailed(cache, a)
    /\ out' = Quiet("server")
    /\ UNCHANGED <<isStale, userId, activeJobs, jobUpdateHandlers, localStorage,
                   net, ticks, app, jobs, serverVersion, srvUsers>>

\* A server of another version is deployed.
Deploy ==
    /\ serverVersion' \in Versions \ {serverVersion}
    /\ out' = Quiet("server")
    /\ UNCHANGED <<isStale, userId, activeJobs, jobUpdateHandlers, localStorage,
                   net, ticks, app, jobs, srvJobs, srvUsers, cache>>

\* The whole client, with one job; a response arrives as it is made.
Next ==
    \/ PollActiveJobs(OneTick)
    \/ CheckVersionCompatibility
    \/ TranscribeAudio(OneAudio)
    \/ MountJobsList
    \/ FetchStats
    \/ ClearCache
    \/ Respond(OneJob)
    \/ Reload
    \/ ServerAdvance
    \/ Deploy

Spec == Init /\ [][Next]_vars

\* Polling of several jobs, for a visitor whose owner id is stored.
InitPoll == Init /\ localStorage # NoUser

NextPoll ==
    \/ PollActiveJobs(OneTick)
    \/ TranscribeAudio(OneAudio)
    \/ MountJobsList
    \/ Respond(MaxJobs)
    \/ ServerAdvance
    \/ Deploy

SpecPoll == InitPoll /\ [][NextPoll]_vars

\* The whole client, with one job; responses may be delayed and overtaken.
NextDelay ==
    \/ Next
    \/ ServerReply(OneJob)
    \/ Receive

SpecDelay == Init /\ [][NextDelay]_vars

\* Polling of one job, for a visitor whose owner id is stored: the timer
\* starts a tick whether or not the one before has settled, and responses
\* may be delayed and overtaken.
NextOverlap ==
    \/ PollActiveJobs(MaxTicks)
    \/ TranscribeAudio(OneAudio)
    \/ MountJobsList
    \/ Respond(OneJob)
    \/ ServerReply(OneJob)
    \/ Receive
    \/ ServerAdvance
    \/ Deploy

SpecOverlap == InitPoll /\ [][NextOverlap]_vars

\* Submissions of several recordings and the cache of the server, for a
\* visitor whose owner id is stored.
NextCache ==
    \/ TranscribeAudio(MaxAudio)
    \/ FetchStats
    \/ ClearCache
    \/ Respond(MaxJobs)
    \/ ServerAdvance

SpecCache == InitPoll /\ [][NextCache]_vars

\* The version check with its timer, for a visitor whose owner id is stored.
NextCheck ==
    \/ CheckVersionCompatibility
    \/ PollActiveJobs(OneTick)
    \/ TranscribeAudio(OneAudio)
    \/ Respond(OneJob)
    \/ ServerAdvance
    \/ Deploy

\* A version check is answered, and its body read: the steps of Respond
\* that do so.
CheckSucceeds ==
    \E m \in Awaiting :
        /\ m.op = "version"
        /\ Arrive(m, [m EXCEPT !.resp = Response("ok", serverVersion,
                                                 VersionBody(serverVersion))])
        /\ UNCHANGED <<jobUpdateHandlers, serverVersion, srvJobs, srvUsers, cache>>

\* The timer of line 29 fires every 5 minutes, whatever the state of the
\* service; every fetch is answered or fails; and a check succeeds again and
\* again.
SpecCheck ==
    /\ InitPoll
    /\ [][NextCheck]_vars
    /\ SF_vars(CheckVersionCompatibility)
    /\ WF_vars(Respond(OneJob))
    /\ SF_vars(CheckSucceeds)

\* Polling of one job with its timer, for a visitor whose owner id is stored.
NextConverge ==
    \/ PollActiveJobs(OneTick)
    \/ TranscribeAudio(OneAudio)
    \/ Respond(OneJob)
    \/ ServerAdvance
    \/ Deploy

\* The status fetch of job j is answered with data: the steps of Respond
\* that do so.
StatusSucceeds(j) ==
    \E m \in Awaiting :
        /\ m.op = "status" /\ m.job = j /\ m.left = 0
        /\ j \in ServerJobs
        /\ \E h \in EchoHeaders(m) :
              /\ ~VersionMismatch(h)
              /\ Arrive(m, [m EXCEPT !.resp = Response("ok", h,
                                            StatusBody(j, srvJobs[j].view))])
        /\ UNCHANGED <<jobUpdateHandlers, serverVersion, srvJobs, srvUsers, cache>>

\* The timer of line 32 fires every 2 seconds, whatever the state of the
\* service; every fetch is answered or fails; and the status fetches of
\* each job succeed again and again.
SpecConverge ==
    /\ InitPoll
    /\ [][NextConverge]_vars
    /\ SF_vars(PollActiveJobs(OneTick))
    /\ WF_vars(Respond(OneJob))
    /\ \A j \in 1..OneJob : SF_vars(StatusSucceeds(j))

\* ================================================================ claims
\* The client steps: everything but a page load and the server's own steps.
ClientStep == out.op \notin {"constructor", "reload", "server"}

\* The gate of makeRequest, lines 171-176: every call that comes to the gate
\* in a stale session is given the stale-version result, and no fetch of
\* makeRequest is sent. Every makeRequest call of a step is in out.calls;
\* the fetches of makeRequest are the ones that are not Raw.
StaleGate ==
    (out.stale /\ ClientStep) =>
        /\ \A i \in DOMAIN out.calls :
              /\ out.calls[i].result = StaleResult
              /\ out.calls[i].result.stale
              /\ ~HasData(out.calls[i].result)
        /\ \A m \in out.sent : Raw(m)

\* C1. Stale gate: a call of transcribeAudio, getJobStatus, getUserJobs or
\* getUser that starts while isStale is true sends no fetch and returns the
\* stale-version result {error, stale: true}.
C1_StaleCalls ==
    /\ StaleGate
    /\ (out.stale /\ out.op \in {"transcribeAudio", "getUserJobs"}) =>
          /\ out.ret = StaleResult
          /\ out.ret.stale

\* C2. checkVersionCompatibility: after a check whose fetch succeeded,
\* isStale is true exactly when the server version differs from
\* currentVersion; one versionMismatch event with both versions is
\* dispatched when it differs and none when it matches.
C2_CheckVersion ==
    (out.op = "version" /\ out.resp.kind = "ok") =>
        /\ isStale = (out.resp.data.version # CurrentVersion)
        /\ out.events = IF out.resp.data.version # CurrentVersion
                        THEN <<[backendVersion |-> out.resp.data.version,
                                frontendVersion |-> CurrentVersion]>>
                        ELSE <<>>

C2_Witness ==
    /\ out.op = "version"
    /\ out.resp.kind = "ok"
    /\ out.resp.data.version = CurrentVersion
    /\ out.stale
    /\ ~isStale

\* C3. Per-response detection: when a response received by makeRequest
\* echoes a version other than the client's, isStale is true afterwards, one
\* versionMismatch event with both versions has been dispatched and the call
\* returns the stale-version result without data, whatever the status and
\* the payload of the response.
C3_ResponseDetection ==
    (out.op = "response" /\ out.resp.kind \in {"ok", "httperr"}
        /\ out.resp.hdr \in Versions \ {CurrentVersion}) =>
        /\ isStale
        /\ out.events = <<[backendVersion |-> out.resp.hdr,
                           frontendVersion |-> CurrentVersion]>>
        /\ out.result = StaleResult
        /\ ~HasData(out.result)

C3_Witness ==
    /\ out.op = "response"
    /\ out.resp.kind = "httperr"
    /\ out.resp.hdr = NewerVersion
    /\ ~out.stale
    /\ isStale
    /\ out.result = StaleResult

\* C4. While isStale is true no mutating request is sent: no client step
\* that starts in a stale session sends a POST.
C4_NoMutationWhileStale ==
    (out.stale /\ ClientStep) => \A m \in out.sent : Method(m) # "POST"

\* C5. Header contract: every request sent carries the client version in
\* the version header.
C5_HeaderContract ==
    \A m \in out.sent : m.ver = CurrentVersion

C7_EmptyTick ==
    [][(out'.op = "pollActiveJobs" /\ DOMAIN activeJobs = {}) =>
          /\ UNCHANGED <<isStale, userId, activeJobs, jobUpdateHandlers,
                         localStorage, net, ticks, app, jobs>>
          /\ out'.sent = {}
          /\ out'.calls = <<>>
          /\ out'.events = <<>>
          /\ out'.notified = <<>>]_vars

C7_Witness ==
    /\ out.op = "pollActiveJobs"
    /\ DOMAIN activeJobs = {}
    /\ jobUpdateHandlers > 0
    /\ out.sent = {}

\* C8. Per-job failure isolation: when a tick over several jobs ends and the
\* status fetch of one job failed, every other job whose fetch brought
\* values other than the held ones is updated in that step, and every
\* handler is notified.
C8_FailureIsolation ==
    [][\A j, k \in DOMAIN out'.settled :
          (/\ ~HasData(out'.settled[k])
           /\ HasData(out'.settled[j])
           /\ j \in DOMAIN activeJobs
           /\ activeJobs[j] # out'.settled[j].data.view) =>
              /\ activeJobs'[j] = out'.settled[j].data.view
              /\ j \in out'.updated
              /\ Len(out'.notified) = jobUpdateHandlers
              /\ \A h \in DOMAIN out'.notified : out'.notified[h] = activeJobs']_vars

C8_Witness ==
    \E j, k \in DOMAIN out.settled :
        /\ ~HasData(out.settled[k])
        /\ HasData(out.settled[j])
        /\ out.updated = {j}
        /\ activeJobs[j] = out.settled[j].data.view
        /\ activeJobs[j].status = "processing"
        /\ jobUpdateHandlers > 0
        /\ out.notified # <<>>

\* C9. Change detection: a tick in which every tracked job is fetched with
\* values equal to the held ones, a completed job with its category
\* included, sets no entry and notifies no handler.
C9_NoChangeNoUpdate ==
    [][(/\ out'.settled # <<>>
        /\ \A j \in DOMAIN out'.settled :
              /\ HasData(out'.settled[j])
              /\ j \in DOMAIN activeJobs
              /\ activeJobs[j] = out'.settled[j].data.view) =>
          /\ out'.updated = {}
          /\ out'.notified = <<>>]_vars

\* C10. Batched notification: when a tick ends, every handler is called
\* once, with the mapping as it is after all updates, if the tick set at
\* least one entry, and no handler is called if it set none.
C10_BatchedNotification ==
    out.settled # <<>> =>
        out.notified = IF out.updated # {}
                       THEN [h \in 1..jobUpdateHandlers |-> activeJobs]
                       ELSE <<>>

C10_Witness ==
    /\ Cardinality(out.updated) = 2
    /\ jobUpdateHandlers > 0
    /\ Len(out.notified) = jobUpdateHandlers
    /\ \A j \in out.updated : activeJobs[j] = out.settled[j].data.view

\* C11. Retention: within a page session the key set of activeJobs never
\* shrinks, whatever the status of a job and whatever a poll brings.
C11_Retention ==
    [][out'.op # "reload" => DOMAIN activeJobs \subseteq DOMAIN activeJobs']_vars

C11_Witness ==
    /\ out.settled # <<>>
    /\ \E j \in DOMAIN out.settled :
          /\ ~HasData(out.settled[j])
          /\ j \in DOMAIN activeJobs
          /\ activeJobs[j].status \in {"completed", "error"}

\* The steps of a status that moves forward: queued, processing, then
\* completed or error, and nothing after those.
ForwardSteps ==
    {<<"queued", "queued">>, <<"queued", "processing">>, <<"queued", "completed">>,
     <<"queued", "error">>, <<"processing", "processing">>,
     <<"processing", "completed">>, <<"processing", "error">>,
     <<"completed", "completed">>, <<"error", "error">>}

\* C12. Monotonic observed status: the status held for a job in activeJobs
\* only moves forward, and never leaves completed or error, while the
\* server's status for the job only moves forward.
C12_MonotonicStatus ==
    [][\A j \in DOMAIN activeJobs \cap DOMAIN activeJobs' :
          <<activeJobs[j].status, activeJobs'[j].status>> \in ForwardSteps]_vars

\* C13. Progress monotonicity: the progress held for a job in activeJobs
\* never decreases, while the server's progress for the job never decreases.
C13_MonotonicProgress ==
    [][\A j \in DOMAIN activeJobs \cap DOMAIN activeJobs' :
          activeJobs[j].progress <= activeJobs'[j].progress]_vars

\* The server's side of C12 and C13: the status of a job on the server only
\* moves forward and its progress never decreases.
ServerForward ==
    [][\A j \in DOMAIN srvJobs \cap DOMAIN srvJobs' :
          /\ <<srvJobs[j].view.status, srvJobs'[j].view.status>> \in ForwardSteps
          /\ srvJobs[j].view.progress <= srvJobs'[j].view.progress]_vars

\* C14. Submission tracking: when transcribeAudio is given a successful
\* response {job_id, status}, activeJobs afterwards holds job_id with the
\* returned status, every handler has been notified once, the job id is
\* returned to the caller and every other entry is as it was.
C14_SubmissionTracking ==
    [][(out'.op = "response" /\ out'.result.data.tag = "job") =>
          LET id == out'.result.data.id
          IN  /\ DOMAIN activeJobs' = DOMAIN activeJobs \cup {id}
              /\ activeJobs'[id].status = out'.result.data.view.status
              /\ out'.notified = [h \in 1..jobUpdateHandlers |-> activeJobs']
              /\ out'.ret.data.id = id
              /\ out'.ret.error = None
              /\ \A k \in DOMAIN activeJobs \ {id} : activeJobs'[k] = activeJobs[k]]_vars

C14_Witness ==
    /\ out.op = "response"
    /\ out.result.data.tag = "job"
    /\ out.ret.data.id = out.result.data.id
    /\ Cardinality(DOMAIN activeJobs) > 1
    /\ jobUpdateHandlers > 0
    /\ Len(out.notified) = jobUpdateHandlers

\* C15. Terminal-state consistency: an entry of activeJobs with status
\* completed has full progress, a transcript and no error, and an entry with
\* status error has an error message and no transcript.
C15_TerminalConsistency ==
    \A j \in DOMAIN activeJobs :
        /\ activeJobs[j].status = "completed" =>
              /\ activeJobs[j].progress = CompletedView.progress
              /\ activeJobs[j].transcription # None
              /\ activeJobs[j].error = None
        /\ activeJobs[j].status = "error" =>
              /\ activeJobs[j].error # None
              /\ activeJobs[j].transcription = None

\* C16. Surviving a page reload: a job of the owner that the job list shows
\* as queued or processing (after a reload as before it) is tracked in
\* activeJobs, and every tick of a session that is not stale polls it.
C16_ListedJobsPolled ==
    (out.op = "pollActiveJobs" /\ ~out.stale) =>
        \A j \in DOMAIN jobs :
            jobs[j].status \in {"queued", "processing"} =>
                /\ j \in DOMAIN activeJobs
                /\ \E i \in DOMAIN out.calls : out.calls[i].job = j

\* C17. Owner id provisioning: with no id stored, initializeUserId makes one
\* call of GET /user, so that no GET /user of initializeUserId is sent once
\* the service has an id; the id is kept in the service and in localStorage,
\* and later requests of makeRequest carry it; with an id stored, the page
\* load sends no GET /user and the service uses the stored id.
C17_OneProvisioningCall ==
    /\ \A m \in out.sent : m.left > 0 => m.uid = NoUser
    /\ \A m \in out.sent :
          (~Raw(m) /\ Endpoint(m) # "/user") => (m.uid = userId /\ m.uid # NoUser)
    /\ (out.op \in {"constructor", "reload"} /\ localStorage # NoUser) =>
          /\ userId = localStorage
          /\ \A m \in out.sent : Endpoint(m) # "/user"

\* A step in which the server takes a submission: the job it creates
Submitted == Len(srvJobs') = Len(srvJobs) + 1
NewJob == srvJobs'[Len(srvJobs) + 1]

\* C18. Single-flight: a submission of a recording whose computation is in
\* flight starts no second computation: misses stays, hits grows by one and
\* the job waits for the computation in flight; the first submission of a
\* recording is the one miss; and when the computation lands, all the jobs
\* waiting for it end with the same transcript and category.
C18_SingleFlight ==
    [][/\ (Submitted /\ NewJob.audio \in cache.inflight) =>
              /\ cache'.misses = cache.misses
              /\ cache'.hits = cache.hits + 1
              /\ cache'.inflight = cache.inflight
              /\ NewJob.view = QueuedView
       /\ (Submitted /\ NewJob.audio \notin cache.inflight
                     /\ NewJob.audio \notin cache.entries) =>
              /\ cache'.misses = cache.misses + 1
              /\ cache'.hits = cache.hits
              /\ cache'.inflight = cache.inflight \cup {NewJob.audio}
       /\ \A a \in cache.inflight \ cache'.inflight :
              \A j, k \in Waiting(a) :
                  /\ srvJobs'[j].view.status \in {"completed", "error"}
                  /\ srvJobs'[j].view.status = srvJobs'[k].view.status
                  /\ srvJobs'[j].view.transcription = srvJobs'[k].view.transcription
                  /\ srvJobs'[j].view.category = srvJobs'[k].view.category]_vars

C18_Witness ==
    \E j, k \in ServerJobs :
        /\ j # k
        /\ srvJobs[j].audio = srvJobs[k].audio
        /\ srvJobs[j].view.status = "completed"
        /\ srvJobs[j].view = srvJobs[k].view
        /\ cache.misses = 1
        /\ cache.hits = 1
        /\ out.op = "server"

\* C19. Sequential dedup: a recording submitted again after a job for it
\* has completed, with no clear-cache in between, is a hit: hits grows by
\* one, misses stays, and the job returned is completed at once, with full
\* progress and the transcript and category of the first job.
C19_SequentialDedup ==
    [][\A j \in ServerJobs :
          (/\ Submitted
           /\ srvJobs[j].audio = NewJob.audio
           /\ srvJobs[j].view.status = "completed") =>
              /\ cache'.hits = cache.hits + 1
              /\ cache'.misses = cache.misses
              /\ NewJob.view.status = "completed"
              /\ NewJob.view.progress = CompletedView.progress
              /\ NewJob.view.transcription = srvJobs[j].view.transcription
              /\ NewJob.view.category = srvJobs[j].view.category
              /\ out'.resp.data.view.status = "completed"]_vars

C19_Witness ==
    /\ Len(srvJobs) = 2
    /\ srvJobs[1].audio = srvJobs[2].audio
    /\ srvJobs[1].view = srvJobs[2].view
    /\ srvJobs[2].view.status = "completed"
    /\ cache.misses = 1
    /\ cache.hits = 1
    /\ out.op = "response"
    /\ out.resp.data.tag = "job"
    /\ out.resp.data.view.status = "completed"

\* C20. Cache clear: after a clear-cache the cache reports no entry, no hit,
\* no miss and a hit rate of 0; a clear-cache of a cache in that state
\* changes nothing; and a recording that was cached before is a miss again
\* when submitted after the clear (its job completed, its entry is gone and
\* no computation for it is in flight).
C20_CacheClear ==
    [][/\ (out'.op = "clear" /\ out'.resp.kind = "ok") =>
              /\ Stats(cache') = [entries |-> 0, hits |-> 0, misses |-> 0, hit_rate |-> 0]
              /\ Stats(cache) = Stats(cache') => cache' = cache
              /\ srvJobs' = srvJobs
       /\ \A j \in ServerJobs :
              (/\ Submitted
               /\ srvJobs[j].audio = NewJob.audio
               /\ srvJobs[j].view.status = "completed"
               /\ NewJob.audio \notin cache.entries
               /\ NewJob.audio \notin cache.inflight) =>
                  /\ cache'.misses = cache.misses + 1
                  /\ NewJob.view = QueuedView]_vars

C20_Witness ==
    /\ Len(srvJobs) = 2
    /\ srvJobs[1].audio = srvJobs[2].audio
    /\ srvJobs[1].view.status = "completed"
    /\ srvJobs[2].view = QueuedView
    /\ Stats(cache) = [entries |-> 0, hits |-> 0, misses |-> 1, hit_rate |-> 0]

\* C21. Ordering of staleness detections: the result of a version check
\* that the server answered while isStale was false, and that arrives after
\* a newer response has set isStale, does not reset isStale to false.
C21_LateCheckKeepsStale ==
    [][\A m \in Replied :
          (/\ m.op = "version"
           /\ m \notin net'
           /\ out'.op = "version"
           /\ ~m.seen
           /\ isStale) => isStale']_vars

\* C22. Ticks do not overlap: the status fetches in flight all belong to one
\* tick, at most one tick has unsettled fetches, and no job has two status
\* fetches in flight.
C22_TicksDoNotOverlap ==
    /\ Cardinality({t \in DOMAIN ticks : ticks[t] # <<>>}) <= 1
    /\ \A m, n \in net :
          (m.op = "status" /\ n.op = "status") =>
              /\ m.slot = n.slot
              /\ (m.job = n.job => m = n)

\* C28. While isStale is true the local job mapping does not change: no
\* step of a page session that starts with isStale true, the arrival of a
\* response to a request sent before the flag was set included, sets or adds
\* an entry of activeJobs.
C28_NoChangeWhileStale ==
    [][(isStale /\ out'.op # "reload") => activeJobs' = activeJobs]_vars

\* C29. The job list never loses a job: a job in the jobs state of JobsList
\* is still in it after a job-update notification.
C29_ListKeepsJobs ==
    [][(out'.notified # <<>> /\ jobUpdateHandlers' = jobUpdateHandlers) =>
          DOMAIN jobs \subseteq DOMAIN jobs']_vars

\* C26. A failed submission leaves the client unchanged: when the response
\* to a submission brings no data (network failure, HTTP error, mismatching
\* version) or the gate rejects the call, activeJobs and the job list are as
\* before, no handler is notified, an error and no data is returned to the
\* caller, and no submission is sent again.
C26_FailedSubmission ==
    [][LET failed ==
             \/ out'.op = "transcribeAudio" /\ out'.result = StaleResult
             \/ /\ out'.op = "response"
                /\ ~HasData(out'.result)
                /\ \E m \in net : m.op = "transcribe" /\ m.left = 0 /\ m \notin net'
       IN  failed =>
              /\ activeJobs' = activeJobs
              /\ jobs' = jobs
              /\ out'.notified = <<>>
              /\ out'.ret.error # None
              /\ ~HasData(out'.ret)
              /\ \A n \in net' : n.op # "transcribe"]_vars

C26_Witness ==
    /\ out.op = "response"
    /\ out.resp.kind = "ok"
    /\ out.resp.data.tag = "job"
    /\ out.result = StaleResult
    /\ out.ret = APIResponse(NoData, StaleResult.error, FALSE)
    /\ DOMAIN activeJobs # {}
    /\ out.resp.data.id \notin DOMAIN activeJobs
    /\ jobUpdateHandlers > 0
    /\ out.notified = <<>>

\* C27. A version check whose fetch fails leaves isStale as it was, true or
\* false, and dispatches no versionMismatch event.
C27_FailedCheck ==
    (out.op = "version" /\ out.resp.kind = "neterr") =>
        /\ isStale = out.stale
        /\ out.events = <<>>

C27_Witness ==
    /\ out.op = "version"
    /\ out.resp.kind = "neterr"
    /\ out.stale
    /\ isStale

\* C25. Failures are not cached: when the computation of a recording fails,
\* the jobs waiting for it end in error, no entry is stored for it and the
\* entries of the other recordings are as they were; and a submission of a
\* recording whose jobs so far all failed is a miss that starts the
\* computation again.
C25_FailuresNotCached ==
    [][/\ \A a \in cache.inflight \ cache'.inflight :
              (\E j \in Waiting(a) : srvJobs'[j].view.status = "error") =>
                  /\ cache'.entries = cache.entries
                  /\ a \notin cache'.entries
                  /\ \A j \in Waiting(a) : srvJobs'[j].view.status = "error"
                  /\ \A j \in ServerJobs \ Waiting(a) : srvJobs'[j] = srvJobs[j]
       /\ (/\ Submitted
           /\ \E j \in ServerJobs : srvJobs[j].audio = NewJob.audio
           /\ \A j \in ServerJobs :
                 srvJobs[j].audio = NewJob.audio => srvJobs[j].view.status = "error") =>
              /\ cache'.misses = cache.misses + 1
              /\ cache'.hits = cache.hits
              /\ NewJob.audio \in cache'.inflight
              /\ NewJob.view = QueuedView
              /\ cache'.entries = cache.entries]_vars

C25_Witness ==
    /\ Len(srvJobs) = 2
    /\ srvJobs[1].audio = srvJobs[2].audio
    /\ srvJobs[1].view.status = "error"
    /\ srvJobs[2].view = QueuedView
    /\ cache.misses = 2
    /\ cache.hits = 0
    /\ cache.entries = {}
    /\ cache.inflight = {srvJobs[2].audio}

\* The terminal views of a job on the server
Terminal(j) == j \in ServerJobs /\ srvJobs[j].view.status \in {"completed", "error"}

\* C23. Polling converges: for a job held in activeJobs that is completed or
\* failed on the server, as long as the session is not stale and the status
\* fetches of the job succeed again and again, activeJobs comes to hold the
\* status, progress, transcript, category and error of the server, every
\* tick whose fetch of the job brought data leaving them in the entry; and
\* the client only reads: a status fetch is a GET, and its arrival leaves
\* the jobs of the server as they were.
C23_PollingConverges ==
    /\ [][\A m \in net' \ net : m.op = "status" => Method(m) = "GET"]_vars
    /\ [][(out'.op = "response" /\ out'.resp.data.tag = "status") =>
              srvJobs' = srvJobs]_vars
    /\ [][\A j \in DOMAIN out'.settled :
              (HasData(out'.settled[j]) /\ j \in DOMAIN activeJobs) =>
                  activeJobs'[j] = out'.settled[j].data.view]_vars
    /\ \A j \in 1..OneJob :
          (j \in DOMAIN activeJobs /\ Terminal(j))
              ~> (isStale \/ (j \in DOMAIN activeJobs /\ activeJobs[j] = srvJobs[j].view))

C23_Witness ==
    \E j \in DOMAIN activeJobs :
        /\ Terminal(j)
        /\ srvJobs[j].view.status = "completed"
        /\ j \in out.updated
        /\ HasData(out.settled[j])
        /\ activeJobs[j] = srvJobs[j].view
        /\ ~isStale

\* C24. The periodic version check is independent of polling and of the
\* gate: the timer sends its fetch whether or not a job is tracked and
\* whether or not isStale is true; a check that succeeds while the server
\* has the version of the client sets isStale to false; so that a stale
\* session whose server has the version of the client from some point on
\* comes out of staleness.
C24_CheckRecovers ==
    /\ [][out'.op = "checkVersionCompatibility" =>
              \E m \in net' \ net : m.op = "version" /\ Raw(m)]_vars
    /\ [][(out'.op = "version" /\ out'.resp.kind = "ok"
              /\ out'.resp.data.version = CurrentVersion) => ~isStale']_vars
    /\ (isStale /\ serverVersion = CurrentVersion)
          ~> (~isStale \/ serverVersion # CurrentVersion)

C24_Witness ==
    /\ out.op = "version"
    /\ out.resp.kind = "ok"
    /\ out.stale
    /\ ~isStale
    /\ DOMAIN activeJobs = {}
    /\ Len(srvJobs) = 1

====
